---------------------------- MODULE Spec2Model ----------------------------
(***************************************************************************)
(* A model of src/app.py (the Yassir order/transaction importer).          *)
(*                                                                         *)
(* Python strings are sequences of one-character strings, so that the      *)
(* normalisers (strip, lower, regular-expression substitutions, prefix     *)
(* tests, str.replace) are computed character by character as the code     *)
(* computes them.  A table cell as pandas hands it to the code is a record *)
(* [k, v]: k = "nan" (missing / NaN), "str" (a text cell, v the            *)
(* characters), "num" (a numeric cell, v the amount in tenths) or "ts" (a  *)
(* datetime cell, v the number of hours since the epoch).                  *)
(***************************************************************************)
EXTENDS Integers, Sequences, FiniteSets, TLC

VARIABLES
    \* --- normalize_driver_phone, applied on its own -----------------------
    phone_pc,        \* "idle" | "raw" | "once" | "twice" | "forms"
    phone_val,       \* the raw cell handed to normalize_driver_phone
    phone_key,       \* normalize_driver_phone(phone_val)
    phone_rekey,     \* normalize_driver_phone(phone_key)
    phone_forms,     \* keys of '0'+d, '+212'+d, '00212'+d for a digit string d
    \* --- process_import ---------------------------------------------------
    pc,              \* "idle" | "begin" | "files" | "rows" | "post" | "done"
    df_main,         \* the master table: a sequence of rows (column -> cell)
    files_to_import, \* the uploaded files, each already read into a table
    commission_map,  \* restaurant name -> [variable, fixe, location]
    df_livreur,      \* the driver (RIB) table, or None
    idx_file,        \* position of the file loop
    idx_row,         \* position of the row loop in the current file
    now,             \* per invocation: what datetime.now() returns next
    run              \* per invocation of process_import on these arguments:
                     \* its local variables and its result

phone_vars == <<phone_pc, phone_val, phone_key, phone_rekey, phone_forms>>

import_vars == <<pc, df_main, files_to_import, commission_map, df_livreur,
                 idx_file, idx_row, now, run>>

vars == <<phone_vars, import_vars>>

----------------------------------------------------------------------------
(* Bounds of the model                                                      *)

\* longest raw phone string handed to normalize_driver_phone
MaxLen == 5
\* most rows in an imported file
MaxRows == 2
\* most rows in the driver (RIB) table
MaxLivreurRows == 2
\* last calendar day an order timestamp falls on (days count from 0)
MaxDay == 2
\* latest hour an invocation may start at
MaxClock == 2

----------------------------------------------------------------------------
(* Cells and Python string primitives                                       *)

NaN == [k |-> "nan", v |-> 0]
Str(s) == [k |-> "str", v |-> s]
\* a text the code writes itself (a literal, a file name), kept whole
Txt(s) == [k |-> "txt", v |-> s]
Num(n) == [k |-> "num", v |-> n]
Ts(t) == [k |-> "ts", v |-> t]

\* pd.isna(val)
IsNa(c) == c.k = "nan"

\* all strings over alphabet A of length at most n
StringsUpTo(A, n) == UNION {[1..m -> A] : m \in 0..n}

Digits == {"0", "1", "2", "3", "4", "5", "6", "7", "8", "9"}

\* s.startswith(p)
StartsWith(s, p) == Len(s) >= Len(p) /\ SubSeq(s, 1, Len(p)) = p

\* s[n:]
DropFirst(s, n) == SubSeq(s, n + 1, Len(s))

\* re.sub(r'[^...]', '', s): keep only the characters of Keep
RECURSIVE KeepOnly(_, _)
KeepOnly(s, Keep) ==
    IF s = <<>> THEN <<>>
    ELSE IF Head(s) \in Keep THEN <<Head(s)>> \o KeepOnly(Tail(s), Keep)
         ELSE KeepOnly(Tail(s), Keep)

\* s.replace(old, new): every non-overlapping occurrence, left to right
RECURSIVE Replace(_, _, _)
Replace(s, old, new) ==
    IF Len(s) < Len(old) THEN s
    ELSE IF StartsWith(s, old) THEN new \o Replace(DropFirst(s, Len(old)), old, new)
         ELSE <<Head(s)>> \o Replace(Tail(s), old, new)

----------------------------------------------------------------------------
(* normalize_driver_phone                                                   *)

\* default_indicatif="+212"
default_indicatif == <<"+", "2", "1", "2">>

\* re.sub(r'[^\d+]', '', val)
PhoneChars(s) == KeepOnly(s, Digits \cup {"+"})

\* re.sub(r'^0+', '', num)
RECURSIVE StripLeadingZeros(_)
StripLeadingZeros(s) ==
    IF s # <<>> /\ Head(s) = "0" THEN StripLeadingZeros(Tail(s)) ELSE s

\* a slip: the local leading 0 is kept
LocalToInternationalKeepZero(num) == default_indicatif \o num

\* the branch "if not num.startswith('+')"
LocalToInternational(num) == default_indicatif \o StripLeadingZeros(num)

normalize_driver_phone(val) ==
    IF IsNa(val) \/ val = Str(<<>>) THEN <<>>
    ELSE
        LET num0 == PhoneChars(val.v)
            num1 == IF StartsWith(num0, <<"0", "0">>)
                    THEN <<"+">> \o DropFirst(num0, 2) ELSE num0
            num2 == IF StartsWith(num1, <<"2", "1", "2">>)
                    THEN <<"+">> \o num1 ELSE num1
            num3 == IF ~StartsWith(num2, <<"+">>)
                    THEN LocalToInternational(num2) ELSE num2
        IN  Replace(num3, <<"+", "0", "0">>, <<"+">>)

----------------------------------------------------------------------------
(* normalize_driver_phone applied to every raw string of a small alphabet   *)

\* digits 0, 1, 2 (enough to spell 00 and 212), '+', and a separator
PhoneAlphabet == {"0", "1", "2", "+", "-"}

PhoneInputs == {NaN} \cup {Str(s) : s \in StringsUpTo(PhoneAlphabet, MaxLen)}

IsDigitString(c) == c.k = "str" /\ \A i \in 1..Len(c.v) : c.v[i] \in Digits

PhoneIdle ==
    /\ phone_pc = "idle"
    /\ phone_val = NaN
    /\ phone_key = <<>>
    /\ phone_rekey = <<>>
    /\ phone_forms = <<>>

InitPhone ==
    /\ phone_pc = "raw"
    /\ phone_val \in PhoneInputs
    /\ phone_key = <<>>
    /\ phone_rekey = <<>>
    /\ phone_forms = <<>>
    /\ pc = "idle"
    /\ df_main = <<>>
    /\ files_to_import = <<>>
    /\ commission_map = <<>>
    /\ df_livreur = <<>>
    /\ idx_file = 0
    /\ idx_row = 0
    /\ now = <<>>
    /\ run = <<>>

\* key = normalize_driver_phone(val)
Normalize ==
    /\ phone_pc = "raw"
    /\ phone_key' = normalize_driver_phone(phone_val)
    /\ phone_pc' = "once"
    /\ UNCHANGED <<phone_val, phone_rekey, phone_forms, import_vars>>

\* the key is handed to normalize_driver_phone again
Renormalize ==
    /\ phone_pc = "once"
    /\ phone_rekey' = normalize_driver_phone(Str(phone_key))
    /\ phone_pc' = "twice"
    /\ UNCHANGED <<phone_val, phone_key, phone_forms, import_vars>>

\* the three spellings of one number whose national part is the digit string d
NormalizeForms ==
    /\ phone_pc = "raw"
    /\ IsDigitString(phone_val)
    /\ LET d == phone_val.v
       IN  phone_forms' =
             << normalize_driver_phone(Str(<<"0">> \o d)),
                normalize_driver_phone(Str(default_indicatif \o d)),
                normalize_driver_phone(Str(<<"0", "0", "2", "1", "2">> \o d)) >>
    /\ phone_pc' = "forms"
    /\ UNCHANGED <<phone_val, phone_key, phone_rekey, import_vars>>

NextPhone == Normalize \/ Renormalize \/ NormalizeForms

SpecPhone == InitPhone /\ [][NextPhone]_vars

----------------------------------------------------------------------------
(* More Python string primitives, for the name and key normalisers          *)

UpperLetters == {"A", "B", "C", "D", "E", "F", "G", "H", "I", "J", "K", "L", "M",
                 "N", "O", "P", "Q", "R", "S", "T", "U", "V", "W", "X", "Y", "Z"}
LowerLetters == {"a", "b", "c", "d", "e", "f", "g", "h", "i", "j", "k", "l", "m",
                 "n", "o", "p", "q", "r", "s", "t", "u", "v", "w", "x", "y", "z"}

LowerOf(ch) ==
    CASE ch = "A" -> "a" [] ch = "B" -> "b" [] ch = "C" -> "c" [] ch = "D" -> "d"
      [] ch = "E" -> "e" [] ch = "F" -> "f" [] ch = "G" -> "g" [] ch = "H" -> "h"
      [] ch = "I" -> "i" [] ch = "J" -> "j" [] ch = "K" -> "k" [] ch = "L" -> "l"
      [] ch = "M" -> "m" [] ch = "N" -> "n" [] ch = "O" -> "o" [] ch = "P" -> "p"
      [] ch = "Q" -> "q" [] ch = "R" -> "r" [] ch = "S" -> "s" [] ch = "T" -> "t"
      [] ch = "U" -> "u" [] ch = "V" -> "v" [] ch = "W" -> "w" [] ch = "X" -> "x"
      [] ch = "Y" -> "y" [] ch = "Z" -> "z" [] OTHER -> ch

\* s.lower()
Lower(s) == [i \in 1..Len(s) |-> LowerOf(s[i])]

Whitespace == {" "}

RECURSIVE LStrip(_)
LStrip(s) == IF s # <<>> /\ Head(s) \in Whitespace THEN LStrip(Tail(s)) ELSE s

RECURSIVE RStrip(_)
RStrip(s) ==
    IF s # <<>> /\ s[Len(s)] \in Whitespace
    THEN RStrip(SubSeq(s, 1, Len(s) - 1)) ELSE s

\* s.strip()
Strip(s) == RStrip(LStrip(s))

\* number of '0' characters that end s
RECURSIVE TrailingZeros(_)
TrailingZeros(s) ==
    IF s # <<>> /\ s[Len(s)] = "0"
    THEN 1 + TrailingZeros(SubSeq(s, 1, Len(s) - 1)) ELSE 0

\* re.sub(r'\.0+$', '', s)
StripDotZeros(s) ==
    LET z == TrailingZeros(s)
    IN  IF z >= 1 /\ Len(s) > z /\ s[Len(s) - z] = "."
        THEN SubSeq(s, 1, Len(s) - z - 1) ELSE s

\* re.sub(r'[^a-z0-9]+', ' ', s): every run of other characters becomes one space
RECURSIVE SquashNonAlnum(_, _)
SquashNonAlnum(s, inRun) ==
    IF s = <<>> THEN <<>>
    ELSE IF Head(s) \in LowerLetters \cup Digits
         THEN <<Head(s)>> \o SquashNonAlnum(Tail(s), FALSE)
         ELSE (IF inRun THEN <<>> ELSE <<" ">>) \o SquashNonAlnum(Tail(s), TRUE)

\* normalize_label on a text cell of ASCII characters (the NFD / ascii step
\* leaves those unchanged)
normalize_label(c) ==
    IF IsNa(c) \/ c = Str(<<>>) THEN <<>>
    ELSE Strip(SquashNonAlnum(Strip(Lower(c.v)), FALSE))

normalize_compact(c) == KeepOnly(normalize_label(c), LowerLetters \cup Digits)

normalize_key(c) ==
    IF IsNa(c) THEN <<>>
    ELSE normalize_compact(Str(StripDotZeros(Strip(c.v))))

normalize_driver_name(c) ==
    IF IsNa(c) THEN <<>> ELSE Strip(Lower(c.v))

----------------------------------------------------------------------------
(* Numbers.  A float is the integer number of its thousandths (12.5 is      *)
(* 12500), on the values of the model, where sums and products are exact.   *)

\* a * b on thousandths
FMul(a, b) == (a * b) \div 1000

DigitValue(ch) ==
    CASE ch = "0" -> 0 [] ch = "1" -> 1 [] ch = "2" -> 2 [] ch = "3" -> 3
      [] ch = "4" -> 4 [] ch = "5" -> 5 [] ch = "6" -> 6 [] ch = "7" -> 7
      [] ch = "8" -> 8 [] ch = "9" -> 9

AllDigits(s) == \A i \in 1..Len(s) : s[i] \in Digits

RECURSIVE IntOfDigits(_)
IntOfDigits(s) ==
    IF s = <<>> THEN 0
    ELSE 10 * IntOfDigits(SubSeq(s, 1, Len(s) - 1)) + DigitValue(s[Len(s)])

\* position of the first ch in s, 0 when there is none
RECURSIVE IndexOf(_, _)
IndexOf(s, ch) ==
    IF s = <<>> THEN 0
    ELSE IF Head(s) = ch THEN 1
         ELSE LET r == IndexOf(Tail(s), ch) IN IF r = 0 THEN 0 ELSE r + 1

FloatOk(n) == [ok |-> TRUE, nan |-> FALSE, v |-> n]
FloatNaN == [ok |-> TRUE, nan |-> TRUE, v |-> 0]
ValueError == [ok |-> FALSE, nan |-> FALSE, v |-> 0]

\* thousandths written by the fraction digits f (at most three)
FractionOf(f) ==
    IntOfDigits(f) * (CASE Len(f) = 0 -> 1 [] Len(f) = 1 -> 100
                        [] Len(f) = 2 -> 10 [] Len(f) = 3 -> 1)

\* float(s) of an unsigned decimal text: digits, then optionally '.' and digits
UnsignedFloat(s) ==
    LET dot == IndexOf(s, ".")
        ip == IF dot = 0 THEN s ELSE SubSeq(s, 1, dot - 1)
        fp == IF dot = 0 THEN <<>> ELSE DropFirst(s, dot)
    IN  IF AllDigits(ip) /\ AllDigits(fp) /\ Len(ip) + Len(fp) > 0 /\ Len(fp) <= 3
        THEN FloatOk(IntOfDigits(ip) * 1000 + FractionOf(fp))
        ELSE ValueError

\* float(x) of a numeric or text cell: the number, nan, or ValueError
PyFloat(c) ==
    IF c.k = "num" THEN FloatOk(c.v)
    ELSE LET s == Strip(c.v)
         IN  IF Lower(s) = <<"n", "a", "n">> THEN FloatNaN
             ELSE IF StartsWith(s, <<"-">>)
                  THEN LET u == UnsignedFloat(Tail(s))
                       IN  IF u.ok THEN FloatOk(0 - u.v) ELSE ValueError
                  ELSE UnsignedFloat(s)

----------------------------------------------------------------------------
(* Dates.  A datetime is the number of hours since the epoch.               *)

NaT == [k |-> "nat", v |-> 0]

\* dt.hour
HourOf(t) == t % 24
\* the calendar day of dt
DayOf(t) == t \div 24

\* a slip: the shift is applied whatever the kind of file
ShiftEarlyHoursAlways(dt, is_transaction) ==
    IF HourOf(dt) < 3 THEN dt - 24 ELSE dt

\* lines 84-86: dt - timedelta(days=1) for a commande whose hour is before 3
ShiftEarlyHours(dt, is_transaction) ==
    IF ~is_transaction /\ HourOf(dt) < 3 THEN dt - 24 ELSE dt

\* text cells of the model are not dates: pd.to_datetime raises and the
\* except branch returns NaT
parse_date_custom(val, is_transaction) ==
    IF IsNa(val) \/ val = Str(<<>>) THEN NaT
    ELSE IF val.k = "ts" THEN Ts(ShiftEarlyHours(val.v, is_transaction))
    ELSE NaT

----------------------------------------------------------------------------
(* Column headers.  A header is a name; HeaderLabel is normalize_label on   *)
(* the headers that occur in the model.                                     *)

None == "None"

HeaderLabel(c) ==
    CASE c = "Order ID" -> "order id"
      [] c = "ID Transaction" -> "id transaction"
      [] c = "id_transaction" -> "id transaction"
      [] c = "Ref" -> "ref"
      [] c = "Date" -> "date"
      [] c = "Issue Date" -> "issue date"
      [] c = "order day" -> "order day"
      [] c = "Driver Phone" -> "driver phone"
      [] c = "driver Phone" -> "driver phone"
      [] c = "CIN" -> "cin"
      [] c = "Driver Name" -> "driver name"
      [] c = "driver name" -> "driver name"
      [] c = "Nom Livreur" -> "nom livreur"
      [] c = "Montant" -> "montant"
      [] c = "Remise" -> "remise"
      [] c = "Restaurant" -> "restaurant"
      [] c = "RIB" -> "rib"
      [] c = "Banque" -> "banque"
      [] c = "Commission" -> "commission"
      [] c = "Variable %" -> "variable"
      [] c = "Fixe (DT)" -> "fixe dt"
      [] c = "Location" -> "location"
      [] c = "amount" -> "amount"
      [] c = "Monnaie" -> "monnaie"
      [] c = "Avance" -> "avance"
      [] c = "Nom du fichier" -> "nom du fichier"
      [] c = "Date d'import" -> "date d import"
      [] c = "Statut" -> "statut"
      [] c = "Utilisateur" -> "utilisateur"
      [] c = "Annulee?" -> "annulee"
      [] c = "Status" -> "status"
      [] c = "Payment Method" -> "payment method"
      [] c = "Service Type" -> "service type"

Range(seq) == {seq[i] : i \in 1..Len(seq)}

\* next((c for c in columns if normalize_label(c) in labels), None)
RECURSIVE FirstColumn(_, _)
FirstColumn(columns, labels) ==
    IF columns = <<>> THEN None
    ELSE IF HeaderLabel(Head(columns)) \in labels THEN Head(columns)
         ELSE FirstColumn(Tail(columns), labels)

\* labels accepted by the "Commande check" of identify_header_type
CommandeLabels == {"n commande", "no commande", "num commande", "numero commande",
                   "n commande yassir", "order id", "orderid"}
\* labels accepted by its "Transaction check"
TransactionLabels == {"id transaction", "idtransaction"}

\* (type, key column) of the first column that names a commande or a transaction
RECURSIVE identify_header_type(_)
identify_header_type(columns) ==
    IF columns = <<>> THEN [type |-> None, key |-> None]
    ELSE IF HeaderLabel(Head(columns)) \in CommandeLabels
         THEN [type |-> "commande", key |-> Head(columns)]
    ELSE IF HeaderLabel(Head(columns)) \in TransactionLabels
         THEN [type |-> "transaction", key |-> Head(columns)]
    ELSE identify_header_type(Tail(columns))

\* the columns of the master file as uploaded
MasterColumns == <<"Order ID", "Date", "order day", "driver name", "RIB",
                   "id_transaction">>

REQUIRED_COLS == <<"Commission", "Variable %", "Fixe (DT)", "Location", "amount",
                   "id_transaction", "Monnaie", "Avance", "Nom du fichier",
                   "Date d'import", "Statut", "Utilisateur", "driver Phone",
                   "Annulee?", "Status", "driver name", "RIB">>

\* lines 193-195: the columns of df_main once the missing required ones are added
RECURSIVE WithRequired(_, _)
WithRequired(columns, req) ==
    IF req = <<>> THEN columns
    ELSE IF Head(req) \in Range(columns) THEN WithRequired(columns, Tail(req))
         ELSE WithRequired(Append(columns, Head(req)), Tail(req))

MainColumns == WithRequired(MasterColumns, REQUIRED_COLS)

\* a master row once the missing required columns hold pd.NA
AddRequired(row) ==
    [c \in Range(MainColumns) |-> IF c \in DOMAIN row THEN row[c] ELSE NaN]

\* lines 176-183: set(df_main.iloc[:, idx].dropna().apply(normalize_key)) for the
\* first of the columns that identify_header_type gives type t
ExistingKeys(rows, columns, t) ==
    LET cols == SelectSeq(columns, LAMBDA c : identify_header_type(<<c>>).type = t)
    IN  IF cols = <<>> THEN {}
        ELSE {normalize_key(rows[i][cols[1]]) :
                 i \in {j \in 1..Len(rows) : ~IsNa(rows[j][cols[1]])}}

----------------------------------------------------------------------------
(* One row of an imported file                                              *)

EmptyRow == [c \in Range(MainColumns) |-> NaN]

\* the body of "for src_col in temp_df.columns" (lines 259-290)
ApplyColumn(new_row, row, src_col, type_file) ==
    LET norm_src == HeaderLabel(src_col)
    IN  IF norm_src \in {"issue date", "issue_date", "date"}
        THEN LET val == parse_date_custom(row[src_col], type_file = "transaction")
                 dated == IF val # NaT THEN [new_row EXCEPT !["Date"] = val]
                          ELSE new_row
             IN  IF /\ type_file = "transaction"
                    /\ norm_src \in {"issue date", "issue_date"}
                    /\ "order day" \in Range(MainColumns)
                 THEN [dated EXCEPT !["order day"] = val]
                 ELSE dated
        ELSE IF norm_src \in {"cin", "driver phone"}
        THEN [new_row EXCEPT
                 !["driver Phone"] = Str(normalize_driver_phone(row[src_col]))]
        ELSE IF norm_src \in {"driver name", "nom livreur"}
        THEN [new_row EXCEPT
                 !["driver name"] = Str(normalize_driver_name(row[src_col]))]
        ELSE LET main_c == FirstColumn(MainColumns, {norm_src})
             IN  IF main_c # None THEN [new_row EXCEPT ![main_c] = row[src_col]]
                 ELSE new_row

RECURSIVE ApplyColumns(_, _, _, _)
ApplyColumns(new_row, row, columns, type_file) ==
    IF columns = <<>> THEN new_row
    ELSE ApplyColumns(ApplyColumn(new_row, row, Head(columns), type_file),
                      row, Tail(columns), type_file)

\* lines 294-301; t is what datetime.now() returns
MetaColumns(new_row, filename, type_file, t) ==
    LET m == [new_row EXCEPT !["Nom du fichier"] = Txt(filename),
                             !["Date d'import"] = Ts(t),
                             !["Statut"] = Txt("Importe"),
                             !["Utilisateur"] = Txt("Streamlit User")]
    IN  IF type_file = "transaction"
        THEN [m EXCEPT !["Annulee?"] = Txt("Delivered"),
                       !["Status"] = Txt("Delivered")]
        ELSE m

MontantLabels == {"montant total", "montant", "total", "total ttc"}
RemiseLabels == {"remise", "discount"}
RestauLabels == {"restaurant", "restau", "restaur", "nom du restaurant",
                 "restaurant name"}

\* a slip: NaN is not cleaned after the conversion
MoneyCellKeepNaN(columns, row, labels) ==
    LET col == FirstColumn(columns, labels)
    IN  IF col = None \/ IsNa(row[col]) THEN FloatOk(0)
        ELSE PyFloat(row[col])

\* a slip: an absent column is looked up all the same (KeyError)
MoneyCellNoColumnCheck(columns, row, labels) ==
    LET col == FirstColumn(columns, labels)
    IN  IF col = None THEN ValueError
        ELSE IF IsNa(row[col]) THEN FloatOk(0)
        ELSE LET f == PyFloat(row[col])
             IN  IF f.ok /\ f.nan THEN FloatOk(0) ELSE f

\* lines 304-308: float(row[col]) if col and pd.notna(row[col]) else 0.0, then
\* NaN is made 0.0; float() may raise
MoneyCell(columns, row, labels) ==
    LET col == FirstColumn(columns, labels)
    IN  IF col = None \/ IsNa(row[col]) THEN FloatOk(0)
        ELSE LET f == PyFloat(row[col])
             IN  IF f.ok /\ f.nan THEN FloatOk(0) ELSE f

DefaultComInfo == [variable |-> 0, fixe |-> 0, location |-> <<>>]

\* lines 312-313
ComInfo(columns, row, cmap) ==
    LET col == FirstColumn(columns, RestauLabels)
        restau_name == IF col # None /\ ~IsNa(row[col])
                       THEN Strip(Lower(row[col].v)) ELSE <<>>
    IN  IF restau_name \in DOMAIN cmap THEN cmap[restau_name] ELSE DefaultComInfo

\* the cell of a float: nan is a missing value to pandas
FloatCell(f) == IF f.nan THEN NaN ELSE Num(f.v)

\* montant - remise, then net * variable (lines 310 and 315); nan propagates
CommissionOf(montant, remise, com_info) ==
    IF montant.nan \/ remise.nan THEN FloatNaN
    ELSE FloatOk(FMul(montant.v - remise.v, com_info.variable))

\* lines 315-318
CommissionColumns(new_row, montant, remise, com_info) ==
    [new_row EXCEPT
        !["Commission"] = FloatCell(CommissionOf(montant, remise, com_info)),
        !["Variable %"] = Num(com_info.variable * 100),
        !["Fixe (DT)"] = Num(com_info.fixe),
        !["Location"] = Str(com_info.location)]

\* whether building the row raises (float() of a malformed amount or discount)
RowRaises(file, row) ==
    \/ ~MoneyCell(file.columns, row, MontantLabels).ok
    \/ ~MoneyCell(file.columns, row, RemiseLabels).ok

\* a slip: the amount is scaled by the time of the import
NewRowTimed(file, row, cmap, t) ==
    LET type_file == identify_header_type(file.columns).type
        mapped == ApplyColumns(EmptyRow, row, file.columns, type_file)
        meta == MetaColumns(mapped, file.name, type_file, t)
        montant == MoneyCell(file.columns, row, MontantLabels)
    IN  CommissionColumns(meta,
                          [montant EXCEPT !.v = @ * t],
                          MoneyCell(file.columns, row, RemiseLabels),
                          ComInfo(file.columns, row, cmap))

\* lines 255-318: the new row of a source row that is imported at time t
NewRow(file, row, cmap, t) ==
    LET type_file == identify_header_type(file.columns).type
        mapped == ApplyColumns(EmptyRow, row, file.columns, type_file)
        meta == MetaColumns(mapped, file.name, type_file, t)
    IN  CommissionColumns(meta,
                          MoneyCell(file.columns, row, MontantLabels),
                          MoneyCell(file.columns, row, RemiseLabels),
                          ComInfo(file.columns, row, cmap))

\* a slip: a transaction ID is looked up among the command IDs
IsSkippedWrongSet(st, type_file, norm_id) ==
    \/ norm_id = <<>>
    \/ type_file = "commande" /\ norm_id \in st.existing_commands
    \/ type_file = "transaction" /\ norm_id \in st.existing_commands

\* lines 244-253: the row is skipped (empty ID, or ID already known for its type)
IsSkipped(st, type_file, norm_id) ==
    \/ norm_id = <<>>
    \/ type_file = "commande" /\ norm_id \in st.existing_commands
    \/ type_file = "transaction" /\ norm_id \in st.existing_transactions

\* one iteration of "for _, row in temp_df.iterrows()" (lines 239-326) in the
\* invocation whose locals are st; `last` records what the iteration did
ProcessRowIn(st, file, row, cmap, t) ==
    LET h == identify_header_type(file.columns)
        norm_id == normalize_key(row[h.key])
    IN  IF st.raised THEN st
        ELSE IF IsSkipped(st, h.type, norm_id)
        THEN [st EXCEPT !.skipped_count = @ + 1, !.last = "skipped"]
        ELSE IF RowRaises(file, row)
        THEN [st EXCEPT !.raised = TRUE, !.last = "raised"]
        ELSE [st EXCEPT
                 !.existing_commands =
                     IF h.type = "commande" THEN @ \cup {norm_id} ELSE @,
                 !.existing_transactions =
                     IF h.type = "transaction" THEN @ \cup {norm_id} ELSE @,
                 !.new_rows = Append(@, NewRow(file, row, cmap, t)),
                 !.imported_count = @ + 1,
                 !.total_imported = @ + 1,
                 !.last = "imported"]

----------------------------------------------------------------------------
(* The RIB post-processing (lines 341-376)                                  *)

\* df.empty
IsEmptyTable(df) == df.columns = <<>> \/ df.rows = <<>>

\* df_livreur=None
NoTable == [given |-> FALSE, columns |-> <<>>, rows |-> <<>>]
Table(columns, rows) == [given |-> TRUE, columns |-> columns, rows |-> rows]

\* lines 353-355: "if n: rib_map[n] = r[col_rib_liv]", row after row
RECURSIVE RibMap(_, _, _, _)
RibMap(rows, col_nom, col_rib, rib_map) ==
    IF rows = <<>> THEN rib_map
    ELSE LET n == normalize_driver_name(Head(rows)[col_nom])
         IN  RibMap(Tail(rows), col_nom, col_rib,
                 IF n # <<>> THEN (n :> Head(rows)[col_rib]) @@ rib_map
                 ELSE rib_map)

EmptyMap == [n \in {} |-> NaN]

\* lines 342-355: whether the post-processing builds rib_map, and the map
RibMapOf(livreur) ==
    IF ~livreur.given \/ IsEmptyTable(livreur)
    THEN [built |-> FALSE, map |-> EmptyMap]
    ELSE LET col_nom == FirstColumn(livreur.columns, {"driver name", "nom livreur"})
             col_rib == FirstColumn(livreur.columns, {"rib"})
         IN  IF col_nom = None \/ col_rib = None
             THEN [built |-> FALSE, map |-> EmptyMap]
             ELSE [built |-> TRUE,
                   map |-> RibMap(livreur.rows, col_nom, col_rib, EmptyMap)]

\* a slip: a row whose name is unknown loses its reference
update_rib_clear(row, rib_map, col_t_nom, col_t_rib) ==
    LET n == normalize_driver_name(row[col_t_nom])
    IN  IF n \in DOMAIN rib_map THEN rib_map[n] ELSE NaN

\* lines 368-372
update_rib(row, rib_map, col_t_nom, col_t_rib) ==
    LET n == normalize_driver_name(row[col_t_nom])
    IN  IF n \in DOMAIN rib_map THEN rib_map[n] ELSE row[col_t_rib]

\* lines 341-374 on the concatenated table
MapRib(rows, livreur) ==
    LET m == RibMapOf(livreur)
        col_t_nom == FirstColumn(MainColumns, {"driver name"})
        col_t_rib == FirstColumn(MainColumns, {"rib"})
    IN  IF ~m.built \/ col_t_nom = None \/ col_t_rib = None THEN rows
        ELSE [i \in 1..Len(rows) |->
                [rows[i] EXCEPT
                    ![col_t_rib] = update_rib(rows[i], m.map, col_t_nom, col_t_rib)]]

----------------------------------------------------------------------------
(* process_import, one step per loop iteration.  `run` holds the locals of  *)
(* each invocation on the same arguments (one invocation, or two that read  *)
(* different clocks); the loops advance together because the files and rows *)
(* they iterate over are the arguments' own.                                *)

InitRun ==
    [existing_commands |-> {}, existing_transactions |-> {},
     new_rows |-> <<>>, log_report |-> <<>>,
     imported_count |-> 0, skipped_count |-> 0, total_imported |-> 0,
     raised |-> FALSE, last |-> "none",
     returned |-> FALSE, df_concat |-> <<>>]

Alive == \E r \in DOMAIN run : ~run[r].raised

\* lines 165-197
Begin ==
    /\ pc = "begin"
    /\ run' = [r \in DOMAIN run |->
                 [run[r] EXCEPT
                     !.existing_commands =
                         ExistingKeys(df_main, MasterColumns, "commande"),
                     !.existing_transactions =
                         ExistingKeys(df_main, MasterColumns, "transaction")]]
    /\ df_main' = [i \in 1..Len(df_main) |-> AddRequired(df_main[i])]
    /\ idx_file' = 1
    /\ pc' = "files"
    /\ UNCHANGED <<files_to_import, commission_map, df_livreur, idx_row, now,
                   phone_vars>>

Log(st, entry) == [st EXCEPT !.log_report = Append(@, entry)]

\* lines 199-237: the file is read and its type identified
OpenFile ==
    /\ pc = "files"
    /\ idx_file <= Len(files_to_import)
    /\ Alive
    /\ LET file == files_to_import[idx_file]
           why == IF ~file.readable THEN "Erreur lecture"
                  ELSE IF IsEmptyTable(file) THEN "Vide"
                  ELSE IF identify_header_type(file.columns).type = None
                  THEN "Ignore"
                  ELSE "ok"
       IN  IF why # "ok"
           THEN /\ run' = [r \in DOMAIN run |->
                             IF run[r].raised THEN run[r]
                             ELSE Log(run[r], [file |-> file.name, what |-> why,
                                               imported |-> 0, skipped |-> 0])]
                /\ idx_file' = idx_file + 1
                /\ UNCHANGED <<pc, idx_row>>
           ELSE /\ run' = [r \in DOMAIN run |->
                             IF run[r].raised THEN run[r]
                             ELSE [run[r] EXCEPT !.imported_count = 0,
                                                 !.skipped_count = 0]]
                /\ idx_row' = 1
                /\ pc' = "rows"
                /\ UNCHANGED idx_file
    /\ UNCHANGED <<df_main, files_to_import, commission_map, df_livreur, now,
                   phone_vars>>

\* lines 239-326: one row of the current file; an invocation that imports the
\* row reads its clock, which then moves on
ProcessRow ==
    /\ pc = "rows"
    /\ idx_row <= Len(files_to_import[idx_file].rows)
    /\ Alive
    /\ LET file == files_to_import[idx_file]
           row == file.rows[idx_row]
       IN  /\ run' = [r \in DOMAIN run |->
                        ProcessRowIn(run[r], file, row, commission_map, now[r])]
           /\ now' = [r \in DOMAIN run |->
                        IF run'[r].last = "imported" /\ ~run[r].raised
                        THEN now[r] + 1 ELSE now[r]]
    /\ idx_row' = idx_row + 1
    /\ UNCHANGED <<pc, df_main, files_to_import, commission_map, df_livreur,
                   idx_file, phone_vars>>

\* lines 328-331
CloseFile ==
    /\ pc = "rows"
    /\ idx_row > Len(files_to_import[idx_file].rows)
    /\ Alive
    /\ run' = [r \in DOMAIN run |->
                 IF run[r].raised THEN run[r]
                 ELSE Log(run[r], [file |-> files_to_import[idx_file].name,
                                   what |-> "ok",
                                   imported |-> run[r].imported_count,
                                   skipped |-> run[r].skipped_count])]
    /\ idx_file' = idx_file + 1
    /\ pc' = "files"
    /\ UNCHANGED <<df_main, files_to_import, commission_map, df_livreur, idx_row,
                   now, phone_vars>>

\* lines 333-376: concatenation, RIB post-processing, return
Finish ==
    /\ pc = "files"
    /\ idx_file > Len(files_to_import)
    /\ Alive
    /\ run' = [r \in DOMAIN run |->
                 IF run[r].raised THEN run[r]
                 ELSE [run[r] EXCEPT
                          !.returned = TRUE,
                          !.df_concat = MapRib(df_main \o run[r].new_rows,
                                               df_livreur)]]
    /\ pc' = "done"
    /\ UNCHANGED <<df_main, files_to_import, commission_map, df_livreur, idx_file,
                   idx_row, now, phone_vars>>

Next == Begin \/ OpenFile \/ ProcessRow \/ CloseFile \/ Finish

----------------------------------------------------------------------------
(* The arguments process_import is called with                              *)

SeqsUpTo(S, n) == UNION {[1..m -> S] : m \in 1..n}

\* every row over `columns` whose cell under column c is one of dom[c]
RECURSIVE RowSet(_, _)
RowSet(columns, dom) ==
    IF columns = <<>> THEN {EmptyMap}
    ELSE {(Head(columns) :> v) @@ f :
              v \in dom[Head(columns)], f \in RowSet(Tail(columns), dom)}

File(columns, rows) ==
    [name |-> "orders.csv", readable |-> TRUE, columns |-> columns, rows |-> rows]

\* a file pd.read_csv / pd.read_excel fails on
UnreadableFile ==
    [name |-> "broken.csv", readable |-> FALSE, columns |-> <<>>, rows |-> <<>>]

\* every file with one of `headers` and 1..n rows of cells from dom
FilesOver(headers, dom, n) ==
    UNION {{File(h, rows) : rows \in SeqsUpTo(RowSet(h, dom), n)} : h \in headers}

\* the master file: one order, of driver "Ali", with a bank reference
MasterRow ==
    ("Order ID" :> Str(<<"M", "1">>)) @@ ("Date" :> Ts(36)) @@ ("order day" :> NaN)
    @@ ("driver name" :> Str(<<"A", "l", "i">>)) @@ ("RIB" :> Str(<<"R", "0">>))
    @@ ("id_transaction" :> NaN)

\* restaurant "kfc": variable 10 % (0.1), fixe 5.0, location "T"
CommissionMap ==
    (<<"k", "f", "c">> :> [variable |-> 100, fixe |-> 5000, location |-> <<"T">>])

\* a driver table with one reference for "ali"
OneLivreur ==
    Table(<<"Nom Livreur", "RIB">>,
          << ("Nom Livreur" :> Str(<<"A", "l", "i">>))
             @@ ("RIB" :> Str(<<"R", "1">>)) >>)

\* cells that do not vary: one value per column
PlainCells ==
    [c \in {"Order ID", "ID Transaction", "Ref", "Date", "Issue Date",
            "Driver Phone", "Driver Name", "RIB", "Restaurant", "Montant",
            "Remise"} |->
        CASE c \in {"Order ID", "ID Transaction"} -> {Str(<<"a">>)}
          [] c = "Ref" -> {Str(<<"r">>)}
          [] c \in {"Date", "Issue Date"} -> {Ts(50)}
          [] c = "Driver Phone" -> {Str(<<"0", "6", "-", "1", "2">>)}
          [] c = "Driver Name" -> {Str(<<" ", "B", "o", "b">>)}
          [] c = "RIB" -> {Str(<<"R", "9">>)}
          [] c = "Restaurant" -> {Str(<<"K", "F", "C", " ">>)}
          [] c = "Montant" -> {Num(100000)}
          [] c = "Remise" -> {Num(10000)}]

IdCells == {Str(<<"a">>), Str(<<" ", "B", ".", "0">>)}

\* amounts: missing, 100.0, '12,5' (comma decimal), '12.5', ' nan'
MontantCells == {NaN, Num(100000), Str(<<"1", "2", ",", "5">>),
                 Str(<<"1", "2", ".", "5">>), Str(<<" ", "n", "a", "n">>)}
\* discounts: missing, 10.0, 'abc'
RemiseCells == {NaN, Num(10000), Str(<<"a", "b", "c">>)}

MoneyCells ==
    [c \in DOMAIN PlainCells |->
        CASE c \in {"Order ID", "ID Transaction"} -> IdCells
          [] c = "Montant" -> MontantCells
          [] c = "Remise" -> RemiseCells
          [] OTHER -> PlainCells[c]]

\* order and transaction files with and without the amount, discount, phone and
\* restaurant columns, and a file with no ID column
MoneyHeaders ==
    { <<"Order ID", "Date", "Driver Phone", "Driver Name", "RIB", "Restaurant",
        "Montant", "Remise">>,
      <<"Order ID", "Driver Phone", "Restaurant", "Remise">>,
      <<"Order ID", "Restaurant", "Montant">>,
      <<"Order ID">>,
      <<"ID Transaction", "Issue Date", "Montant">>,
      <<"Ref", "Montant">> }

\* every hour of the days 1..MaxDay, a missing date, and a text that is no date
DateCells ==
    {NaN, Str(<<"a", "b", "c">>)} \cup {Ts(t) : t \in 24..(24 * MaxDay + 23)}

DatedCells ==
    [c \in DOMAIN PlainCells |->
        IF c \in {"Date", "Issue Date"} THEN DateCells ELSE PlainCells[c]]

DateHeaders ==
    { <<"Order ID", "Date">>, <<"ID Transaction", "Issue Date">>,
      <<"ID Transaction", "Date">> }

\* order attributes a settlement would be decided on
ClassCells ==
    [c \in {"Order ID", "Status", "Payment Method", "Service Type"} |->
        CASE c = "Order ID" -> {Str(<<"a">>)}
          [] c = "Status" ->
                 {Str(<<"R", "e", "t", "u", "r", "n", "e", "d">>),
                  Str(<<"D", "e", "l", "i", "v", "e", "r", "e", "d">>)}
          [] c = "Payment Method" ->
                 {Str(<<"C", "A", "S", "H">>), Str(<<"C", "a", "r", "d">>),
                  Str(<<"W", "a", "l", "l", "e", "t">>)}
          [] c = "Service Type" ->
                 {Str(<<"Y", "a", "s", "s", "i", "r", " ", "M", "a", "r", "k", "e", "t">>),
                  Str(<<"F", "o", "o", "d">>)}]

\* driver names of the imported rows: "ali" in another spelling, another
\* driver, none
NamedCells ==
    [c \in DOMAIN PlainCells |->
        CASE c = "Driver Name" ->
                 {Str(<<" ", "A", "L", "I">>), Str(<<"B", "o", "b">>), NaN}
          [] c = "RIB" -> {NaN, Str(<<"R", "9">>)}
          [] OTHER -> PlainCells[c]]

LivreurCells ==
    [c \in {"Nom Livreur", "RIB", "Banque"} |->
        CASE c = "Nom Livreur" ->
                 {Str(<<"A", "l", "i", " ">>), Str(<<"a", "l", "i">>), NaN}
          [] c = "RIB" -> {NaN, Str(<<"R", "1">>), Str(<<"R", "2">>)}
          [] c = "Banque" -> {Str(<<"B">>)}]

\* no table, an empty one, tables with the name and RIB columns and up to
\* MaxLivreurRows rows, and tables that lack one of the two columns
LivreurTables ==
    {NoTable, Table(<<"Nom Livreur", "RIB">>, <<>>)}
    \cup {Table(<<"Nom Livreur", "RIB">>, rows) :
             rows \in SeqsUpTo(RowSet(<<"Nom Livreur", "RIB">>, LivreurCells),
                               MaxLivreurRows)}
    \cup {Table(h, <<(h[1] :> Str(<<"a", "l", "i">>))
                      @@ (h[2] :> Str(<<"R", "1">>))>>) :
             h \in {<<"Nom Livreur", "Banque">>, <<"Banque", "RIB">>}}

Args(files, livreur) == [files |-> files, livreur |-> livreur]

\* one-row files that vary the amounts, files of up to MaxRows rows with an
\* amount column only, an unreadable and an empty file
MoneyArgs ==
    {Args(<<f>>, OneLivreur) :
        f \in FilesOver(MoneyHeaders, MoneyCells, 1)
              \cup FilesOver({<<"Order ID", "Montant">>}, MoneyCells, MaxRows)
              \cup {UnreadableFile, File(<<"Order ID", "Montant">>, <<>>)}}

\* one-row files that vary the date
DateArgs ==
    {Args(<<f>>, OneLivreur) : f \in FilesOver(DateHeaders, DatedCells, 1)}

\* one-row order files that vary status, payment method and service type
ClassArgs ==
    {Args(<<f>>, OneLivreur) :
        f \in FilesOver({<<"Order ID", "Status", "Payment Method", "Service Type">>},
                        ClassCells, 1)}

\* one-row files that vary the driver, with every driver table
RibArgs ==
    {Args(<<f>>, t) :
        f \in FilesOver({<<"Order ID", "Driver Name", "RIB">>}, NamedCells, 1),
        t \in LivreurTables}

TwoRunCells ==
    [c \in DOMAIN PlainCells |->
        CASE c = "Order ID" -> IdCells
          [] c = "Montant" -> {Num(100000), Str(<<"1", "2", ",", "5">>)}
          [] OTHER -> PlainCells[c]]

\* two files for the runs that are compared: a one-row transaction file, then
\* an order file of up to MaxRows rows
TwoRunFiles ==
    {<<f, g>> :
        f \in FilesOver({<<"ID Transaction", "Restaurant", "Montant", "Remise">>},
                        [MoneyCells EXCEPT !["ID Transaction"] = {Str(<<"a">>)}], 1),
        g \in FilesOver({<<"Order ID", "Montant">>}, TwoRunCells, MaxRows)}

InitImport(args, runs, clocks) ==
    /\ PhoneIdle
    /\ pc = "begin"
    /\ df_main = <<MasterRow>>
    /\ commission_map = CommissionMap
    /\ \E a \in args : files_to_import = a.files /\ df_livreur = a.livreur
    /\ idx_file = 0
    /\ idx_row = 0
    /\ now \in [runs -> clocks]
    /\ run = [r \in runs |-> InitRun]

\* one invocation
Init == InitImport(MoneyArgs \cup DateArgs \cup ClassArgs \cup RibArgs, {1}, {1})

Spec == Init /\ [][Next]_vars

\* two invocations on the same arguments, each with its own clock
InitTwoRuns ==
    InitImport({Args(fs, OneLivreur) : fs \in TwoRunFiles}, {1, 2}, 1..MaxClock)

SpecTwoRuns == InitTwoRuns /\ [][Next]_vars

\* IDs of the rows that are imported: "a" in two spellings that normalize_key
\* makes equal, "b", and a text with no letter or digit, whose key is empty
DedupIds == {Str(<<"a">>), Str(<<" ", "A", ".", "0">>), Str(<<"b">>), Str(<<"-">>)}

DedupCells ==
    [c \in {"Order ID", "ID Transaction"} |-> DedupIds \cup {NaN}]

DedupHeaders == { <<"Order ID">>, <<"ID Transaction">> }

\* one file of up to MaxRows rows, alone or followed by a one-row file, of
\* either type each
DedupFiles ==
    LET first == FilesOver(DedupHeaders, DedupCells, MaxRows)
        second == FilesOver(DedupHeaders, DedupCells, 1)
    IN  {<<f>> : f \in first} \cup {<<f, g>> : f \in first, g \in second}

\* master files: the order M1 alone, or the order "A" with the transaction "b"
DedupMasters ==
    { <<MasterRow>>,
      <<[MasterRow EXCEPT !["Order ID"] = Str(<<" ", "A">>),
                          !["id_transaction"] = Str(<<"b">>)]>> }

\* one invocation on files whose IDs repeat, in a file, across files, across
\* types and in the master file
InitDedup ==
    /\ PhoneIdle
    /\ pc = "begin"
    /\ df_main \in DedupMasters
    /\ commission_map = CommissionMap
    /\ files_to_import \in DedupFiles
    /\ df_livreur = NoTable
    /\ idx_file = 0
    /\ idx_row = 0
    /\ now = [r \in {1} |-> 1]
    /\ run = [r \in {1} |-> InitRun]

SpecDedup == InitDedup /\ [][Next]_vars

----------------------------------------------------------------------------
(* C1: phone normalisation is idempotent: normalising a key again gives    *)
(* the same key, for every input.                                          *)
C1_Idempotent == phone_pc = "twice" => phone_rekey = phone_key

(* C4 as stated: for every digit string d, '0'+d, '+212'+d and '00212'+d   *)
(* normalise to the same key.                                              *)
C4_SameKeyAnyDigits ==
    phone_pc = "forms" =>
        /\ phone_forms[1] = phone_forms[2]
        /\ phone_forms[2] = phone_forms[3]

(* C4 amended: for every digit string d that does not begin with '0',      *)
(* '0'+d, '+212'+d and '00212'+d normalise to the same key, '+212'+d.      *)
C4_SameKeyNoLeadingZero ==
    (phone_pc = "forms" /\ ~StartsWith(phone_val.v, <<"0">>)) =>
        /\ phone_forms[1] = default_indicatif \o phone_val.v
        /\ phone_forms[2] = phone_forms[1]
        /\ phone_forms[3] = phone_forms[1]

C4_Witness ==
    /\ phone_pc = "forms"
    /\ phone_val = Str(<<"1", "2">>)
    /\ phone_forms[1] = <<"+", "2", "1", "2", "1", "2">>
    /\ phone_forms[2] = phone_forms[1]
    /\ phone_forms[3] = phone_forms[1]

(* C11: every non-empty key the phone normaliser returns is one leading    *)
(* '+' followed by digits only, for any input, one with a '+' in the       *)
(* middle included.                                                        *)
C11_PlusThenDigitsOnly ==
    (phone_pc = "once" /\ phone_key # <<>>) =>
        /\ Head(phone_key) = "+"
        /\ \A i \in 2..Len(phone_key) : phone_key[i] \in Digits

----------------------------------------------------------------------------
(* What the claims are stated over                                         *)

\* the file the row loop is in, and the source row it has just handled
CurFile == files_to_import[idx_file]
RowHandled == pc = "rows" /\ idx_row > 1
LastRow == CurFile.rows[idx_row - 1]
\* the row the invocation r has just appended
LastNew(r) == run[r].new_rows[Len(run[r].new_rows)]
JustImported(r) == RowHandled /\ run[r].last = "imported"

HasColumn(file, labels) == \E c \in Range(file.columns) : HeaderLabel(c) \in labels
CellOf(file, row, labels) ==
    row[CHOOSE c \in Range(file.columns) : HeaderLabel(c) \in labels]

IsOrderFile(file) == identify_header_type(file.columns).type = "commande"
IsTransactionFile(file) == identify_header_type(file.columns).type = "transaction"

\* a cell that holds no value: the column is absent, or the cell is missing
IsMissing(file, row, labels) ==
    ~HasColumn(file, labels) \/ IsNa(CellOf(file, row, labels))

\* a text cell that is not the decimal notation of a number
IsMalformed(file, row, labels) ==
    /\ ~IsMissing(file, row, labels)
    /\ ~PyFloat(CellOf(file, row, labels)).ok

\* s has sub as a substring
Contains(s, sub) ==
    \E i \in 0..(Len(s) - Len(sub)) : SubSeq(s, i + 1, i + Len(sub)) = sub

SettlementClasses == {"Returned", "Marketplace", "CashInstant", "CashDeferred",
                      "CardInstant", "CardDeferred", "Fallback"}

\* the lower-cased text of a cell of the row, empty when the file has no such
\* column or the cell is missing
TextOf(file, row, labels) ==
    IF IsMissing(file, row, labels) THEN <<>>
    ELSE Lower(CellOf(file, row, labels).v)

\* the classes the ordered decision list allows for a source row
ClassesAllowed(file, row) ==
    IF Contains(TextOf(file, row, {"status"}), <<"r", "e", "t", "u", "r", "n", "e", "d">>)
    THEN {"Returned"}
    ELSE IF Contains(TextOf(file, row, {"service type"}),
                     <<"y", "a", "s", "s", "i", "r", " ", "m", "a", "r", "k", "e", "t">>)
    THEN {"Marketplace"}
    ELSE IF Contains(TextOf(file, row, {"payment method"}), <<"c", "a", "s", "h">>)
    THEN {"CashInstant", "CashDeferred"}
    ELSE IF \/ Contains(TextOf(file, row, {"payment method"}), <<"c", "a", "r", "d">>)
            \/ Contains(TextOf(file, row, {"payment method"}), <<"c", "b">>)
    THEN {"CardInstant", "CardDeferred"}
    ELSE {"Fallback"}

\* the settlement classes an imported row is labelled with
ClassesOf(new_row) ==
    {cls \in SettlementClasses : \E c \in DOMAIN new_row : new_row[c] = Txt(cls)}

(* C2: every order is assigned exactly one SettlementClass, the one of the *)
(* first matching predicate of the ordered list (Returned, Marketplace,    *)
(* Cash, Card, Fallback), whatever its status, service type and payment    *)
(* method.                                                                 *)
C2_ExactlyOneSettlementClass ==
    \A r \in DOMAIN run :
        (JustImported(r) /\ IsOrderFile(CurFile)) =>
            /\ Cardinality(ClassesOf(LastNew(r))) = 1
            /\ ClassesOf(LastNew(r)) \subseteq ClassesAllowed(CurFile, LastRow)

(* C3: money parsing is total: whatever the amount and discount cells of a *)
(* row hold, handling the row never raises, and a malformed value is taken *)
(* as 0.0.                                                                 *)
C3_MoneyParsingTotal ==
    \A r \in DOMAIN run :
        /\ ~run[r].raised
        /\ (JustImported(r) /\ IsMalformed(CurFile, LastRow, MontantLabels)
              /\ IsMissing(CurFile, LastRow, RemiseLabels))
           => LastNew(r)["Commission"] = Num(0)

ValueUsed(file, row, labels) ==
    IF IsMissing(file, row, labels) THEN 0
    ELSE LET f == PyFloat(CellOf(file, row, labels))
         IN  IF f.nan THEN 0 ELSE f.v

\* the rate of the row's restaurant, 0 when it has none
RateOf(file, row) ==
    IF /\ HasColumn(file, RestauLabels)
       /\ ~IsNa(CellOf(file, row, RestauLabels))
       /\ Strip(Lower(CellOf(file, row, RestauLabels).v)) \in DOMAIN commission_map
    THEN commission_map[Strip(Lower(CellOf(file, row, RestauLabels).v))].variable
    ELSE 0

(* C9: a missing or NaN amount or discount (column absent, cell missing,   *)
(* cell NaN) is used as 0.0, and the Commission of the imported row is the *)
(* number (amount - discount) * rate, never NaN.                           *)
C9_MissingMoneyIsZero ==
    \A r \in DOMAIN run :
        JustImported(r) =>
            /\ LastNew(r)["Commission"].k = "num"
            /\ LastNew(r)["Commission"].v =
                  FMul(ValueUsed(CurFile, LastRow, MontantLabels)
                         - ValueUsed(CurFile, LastRow, RemiseLabels),
                       RateOf(CurFile, LastRow))

\* a row whose amount is the float nan and whose discount is missing, at a
\* restaurant with a rate: Commission is 0.0
C9_Witness ==
    /\ JustImported(1)
    /\ HasColumn(CurFile, MontantLabels)
    /\ CellOf(CurFile, LastRow, MontantLabels) = Str(<<" ", "n", "a", "n">>)
    /\ HasColumn(CurFile, RemiseLabels)
    /\ IsNa(CellOf(CurFile, LastRow, RemiseLabels))
    /\ RateOf(CurFile, LastRow) = 100
    /\ LastNew(1)["Commission"] = Num(0)

----------------------------------------------------------------------------
\* the date cell of the row just handled, when the file has a date column
DateLabels == {"date", "issue date", "issue_date"}

(* C8: the timestamp of an order row whose hour is before 03:00 is moved   *)
(* back by exactly one calendar day, its time of day unchanged; one whose  *)
(* hour is 3 or later is left as it is; the timestamp of a transaction row *)
(* is never moved.                                                         *)
C8_EarlyOrdersShiftOneDay ==
    \A r \in DOMAIN run :
        (JustImported(r) /\ HasColumn(CurFile, DateLabels)
            /\ CellOf(CurFile, LastRow, DateLabels).k = "ts")
        => LET t == CellOf(CurFile, LastRow, DateLabels).v
               d == LastNew(r)["Date"]
           IN  /\ d.k = "ts"
               /\ (IsOrderFile(CurFile) /\ HourOf(t) < 3)
                  => /\ DayOf(d.v) = DayOf(t) - 1
                     /\ HourOf(d.v) = HourOf(t)
               /\ (IsOrderFile(CurFile) /\ HourOf(t) >= 3) => d.v = t
               /\ IsTransactionFile(CurFile) => d.v = t

\* an order logged at 02:00 of day 2 is dated 02:00 of day 1
C8_Witness ==
    /\ JustImported(1)
    /\ IsOrderFile(CurFile)
    /\ HasColumn(CurFile, DateLabels)
    /\ CellOf(CurFile, LastRow, DateLabels) = Ts(50)
    /\ LastNew(1)["Date"] = Ts(26)

----------------------------------------------------------------------------
\* the driver table is one the post-processing reads: given, not empty, with a
\* name column and a RIB column
NomLabels == {"driver name", "nom livreur"}
LivreurUsable ==
    /\ df_livreur.given
    /\ ~IsEmptyTable(df_livreur)
    /\ HasColumn(df_livreur, NomLabels)
    /\ HasColumn(df_livreur, {"rib"})

\* the rows of the driver table whose normalised name is n
EntriesOf(n) ==
    {j \in 1..Len(df_livreur.rows) :
        normalize_driver_name(CellOf(df_livreur, df_livreur.rows[j], NomLabels)) = n}

RibAt(j) == CellOf(df_livreur, df_livreur.rows[j], {"rib"})
IsEmptyRib(c) == IsNa(c) \/ c = Str(<<>>)

\* the table before the RIB post-processing: the master rows, then the new rows
Concatenated(r) == df_main \o run[r].new_rows

(* C6: when several rows of the driver table share a normalised name, the  *)
(* reference given to that name is the first non-empty one in table order. *)
C6_FirstNonEmptyRibWins ==
    \A r \in DOMAIN run :
        (pc = "done" /\ run[r].returned /\ LivreurUsable) =>
            \A i \in 1..Len(run[r].df_concat) :
                LET n == normalize_driver_name(Concatenated(r)[i]["driver name"])
                    filled == {j \in EntriesOf(n) : ~IsEmptyRib(RibAt(j))}
                IN  (n # <<>> /\ filled # {}) =>
                        run[r].df_concat[i]["RIB"] =
                            RibAt(CHOOSE j \in filled : \A k \in filled : j <= k)

(* C7: the bank reference a row carries is kept when the driver table is   *)
(* absent or empty, lacks its name or its RIB column, or has no entry for  *)
(* the row's normalised driver name; it is replaced, by a reference of the *)
(* table, only for rows whose normalised name has an entry; no other       *)
(* column of the row changes.                                              *)
C7_RibKeptWithoutEntry ==
    \A r \in DOMAIN run :
        (pc = "done" /\ run[r].returned) =>
            /\ Len(run[r].df_concat) = Len(Concatenated(r))
            /\ \A i \in 1..Len(run[r].df_concat) :
                 LET before == Concatenated(r)[i]
                     after == run[r].df_concat[i]
                     n == normalize_driver_name(before["driver name"])
                     entry == LivreurUsable /\ n # <<>> /\ EntriesOf(n) # {}
                 IN  /\ \A c \in DOMAIN before \ {"RIB"} : after[c] = before[c]
                     /\ ~entry => after["RIB"] = before["RIB"]
                     /\ entry => \E j \in EntriesOf(n) : after["RIB"] = RibAt(j)

\* the table knows "ali" only: the master row of Ali takes its reference, the
\* imported row of Bob keeps the reference R9 it came with
C7_Witness ==
    /\ pc = "done"
    /\ run[1].returned
    /\ LivreurUsable
    /\ Len(run[1].df_concat) = 2
    /\ run[1].df_concat[1]["RIB"] = Str(<<"R", "1">>)
    /\ Concatenated(1)[1]["RIB"] = Str(<<"R", "0">>)
    /\ run[1].df_concat[2]["driver name"] = Str(<<"b", "o", "b">>)
    /\ run[1].df_concat[2]["RIB"] = Str(<<"R", "9">>)

----------------------------------------------------------------------------
MonetaryColumns == {"Commission", "Variable %", "Fixe (DT)"}

(* C10: two runs of the import on the same tables, at different times,     *)
(* import the same rows with the same Commission, Variable % and           *)
(* Fixe (DT); the time read during a run shows in Date d'import only.      *)
C10_SameMoneyAtAnyTime ==
    \A r1, r2 \in DOMAIN run :
        /\ run[r1].raised = run[r2].raised
        /\ run[r1].log_report = run[r2].log_report
        /\ Len(run[r1].new_rows) = Len(run[r2].new_rows)
        /\ \A i \in 1..Len(run[r1].new_rows) :
              \A c \in DOMAIN run[r1].new_rows[i] \ {"Date d'import"} :
                  run[r1].new_rows[i][c] = run[r2].new_rows[i][c]
        /\ Len(run[r1].df_concat) = Len(run[r2].df_concat)
        /\ \A i \in 1..Len(run[r1].df_concat) :
              \A c \in MonetaryColumns :
                  run[r1].df_concat[i][c] = run[r2].df_concat[i][c]

\* both runs returned, and a row they imported at different times has the same
\* non-zero Commission in both
C10_Witness ==
    /\ pc = "done"
    /\ DOMAIN run = {1, 2}
    /\ run[1].returned /\ run[2].returned
    /\ Len(run[1].df_concat) >= 3
    /\ run[1].df_concat[2]["Date d'import"] # run[2].df_concat[2]["Date d'import"]
    /\ run[1].df_concat[2]["Commission"] = Num(9000)
    /\ run[2].df_concat[2]["Commission"] = Num(9000)

----------------------------------------------------------------------------
FileTypes == {"commande", "transaction"}

\* the column of the master table that holds the IDs of type t
IdColumn(t) ==
    SelectSeq(MainColumns, LAMBDA c : identify_header_type(<<c>>).type = t)[1]

\* the row of the table is of type t: it has an ID of that type
IsOfType(row, t) == ~IsNa(row[IdColumn(t)])
KeyOfRow(row, t) == normalize_key(row[IdColumn(t)])

\* the normalised IDs of type t among the rows
KeysOfType(rows, t) ==
    {KeyOfRow(rows[i], t) : i \in {j \in 1..Len(rows) : IsOfType(rows[j], t)}}

\* the rows the invocation r had appended before the row just handled
EarlierRows(r) ==
    IF run[r].last = "imported"
    THEN SubSeq(run[r].new_rows, 1, Len(run[r].new_rows) - 1)
    ELSE run[r].new_rows

(* C12: a row is appended only if its normalised ID is not empty and is    *)
(* neither an ID of its type in the master table nor the ID of a row of    *)
(* its type appended earlier in the run, in this file or an earlier one;   *)
(* no two appended rows of one type have the same normalised ID; and an ID *)
(* known for the other type only does not keep a row out: a row whose ID   *)
(* is new for its type is appended.                                        *)
C12_NoDuplicateIds ==
    \A r \in DOMAIN run :
        LET rows == run[r].new_rows
        IN  /\ \A i \in 1..Len(rows) : \A t \in FileTypes :
                  IsOfType(rows[i], t) =>
                      /\ KeyOfRow(rows[i], t) # <<>>
                      /\ KeyOfRow(rows[i], t) \notin KeysOfType(df_main, t)
                      /\ \A j \in 1..Len(rows) :
                            (j # i /\ IsOfType(rows[j], t))
                            => KeyOfRow(rows[j], t) # KeyOfRow(rows[i], t)
            /\ RowHandled =>
                  LET h == identify_header_type(CurFile.columns)
                      k == normalize_key(LastRow[h.key])
                      seen == KeysOfType(df_main, h.type)
                                \cup KeysOfType(EarlierRows(r), h.type)
                  IN  (run[r].last = "imported") <=> (k # <<>> /\ k \notin seen)

\* an order file with "a" twice, in two spellings, then a transaction file
\* with "a": the order a and the transaction a are appended, the second
\* spelling is counted as a duplicate
C12_Witness ==
    /\ pc = "done"
    /\ run[1].returned
    /\ Len(files_to_import) = 2
    /\ files_to_import[1].columns = <<"Order ID">>
    /\ Len(files_to_import[1].rows) = 2
    /\ files_to_import[1].rows[2]["Order ID"] = Str(<<" ", "A", ".", "0">>)
    /\ Len(run[1].new_rows) = 2
    /\ run[1].new_rows[1]["Order ID"] = Str(<<"a">>)
    /\ run[1].new_rows[2]["id_transaction"] = Str(<<"a">>)
    /\ run[1].log_report[1].skipped = 1

=============================================================================
